---- MODULE Spec2Model ----
(***************************************************************************)
(* Model of the eCourts scraper: the Flask job orchestrator                *)
(* (src/flask_app.py) and the extraction engine it launches as a           *)
(* subprocess (src/main.py).                                               *)
(*                                                                         *)
(* Python values: None is the string NONE; a dict is a function whose      *)
(* DOMAIN is its set of keys, so dict.update(d) is d @@ old; a str that    *)
(* the code inspects character by character is a sequence of one-character *)
(* strings; a list is a sequence.                                          *)
(***************************************************************************)
EXTENDS Integers, Sequences, FiniteSets, TLC

VARIABLES
    JOBS,      \* flask_app.JOBS: job_id -> dict
    thr,       \* the background threads started by run_job, by start order
    nthr,      \* number of threads started so far
    eng,       \* the main.py process of each thread (0: a command-line run)
    json_dir,  \* names of the result documents in outputs/
    pdf_dir,   \* outputs/pdfs: file name -> modification time
    now,       \* the wall clock, in seconds
    resp       \* the HTTP response the last step returned, if it was a request

vars == <<JOBS, thr, nthr, eng, json_dir, pdf_dir, now, resp>>

-----------------------------------------------------------------------------
(* Bounds of the model *)

MaxJobs == 2
MaxTime == 2
MaxAnchorsWeb == 1
MaxAnchors == 2
MaxRows == 2

NONE == "None"

\* a dict or an argument list that is not there is the empty one (the code
\* never reads into it)
NoCmd == <<>>
NoBody == <<>>

\* the values uuid.uuid4().hex[:10] can take
JobIds == {"id1", "id2"}

Threads == 1..MaxJobs
CLI == 0
Procs == {CLI} \cup Threads

\* no response is being returned
NoResp == [code |-> 0, job_id |-> NONE, body |-> NoBody]

-----------------------------------------------------------------------------
(* Requests posted to /run: the form fields run_job reads *)

Forms ==
    { [state |-> "v", district |-> "v", complex |-> "v", date |-> "2025-10-18"],
      [state |-> NONE, district |-> "v", complex |-> "v", date |-> "2025-10-18"],
      [state |-> "", district |-> "v", complex |-> "v", date |-> "2025-10-18"],
      [state |-> "v", district |-> "", complex |-> "v", date |-> "2025-10-18"],
      [state |-> "v", district |-> "v", complex |-> "", date |-> "2025-10-18"],
      [state |-> "v", district |-> "v", complex |-> "v", date |-> "bad"] }

-----------------------------------------------------------------------------
(* Python str helpers, on sequences of one-character strings *)

Letters == {"A", "B", "J", "u", "d", "g", "e"}
Digits == {"1", "2", "3"}
Whitespace == {" "}

\* str.isalnum() of one character
isalnum(c) == c \in Letters \cup Digits

RECURSIVE lstrip(_)
lstrip(s) ==
    IF s = <<>> THEN <<>>
    ELSE IF Head(s) \in Whitespace THEN lstrip(Tail(s)) ELSE s

RECURSIVE rstrip(_)
rstrip(s) ==
    IF s = <<>> THEN <<>>
    ELSE IF s[Len(s)] \in Whitespace THEN rstrip(SubSeq(s, 1, Len(s) - 1)) ELSE s

strip(s) == rstrip(lstrip(s))

\* Python's "sub in s" for strings
contains(s, sub) ==
    \E i \in 0..(Len(s) - Len(sub)) : SubSeq(s, i + 1, i + Len(sub)) = sub

\* Python truthiness of an optional str
Truthy(v) == v # NONE /\ v # ""

\* a path, or a CNR, that is None is the empty sequence (a real one never is:
\* the code tests these values for truthiness only)
NoPath == <<>>
NoCnr == <<>>

\* str(n) for the small numbers the model formats
Str(n) == CASE n = 1 -> "1" [] n = 2 -> "2" [] OTHER -> "3"

-----------------------------------------------------------------------------
(* src/main.py: the extraction engine, one process per run *)

get_date_to_check(args) ==
    IF args.today THEN "today"
    ELSE IF args.tomorrow THEN "tomorrow"
    ELSE IF Truthy(args.date) THEN args.date
    ELSE "today"

\* datetime.fromisoformat(args.date) raises ValueError on a malformed date
DateRaises(args) ==
    /\ ~args.today
    /\ ~args.tomorrow
    /\ Truthy(args.date)
    /\ args.date = "bad"

\* mutant of CauseListSteps: the district is selected before the wait that
\* follows the selection of the state
CauseListSteps_DistrictFirst(district, complex_name) ==
    <<"goto", "select_state">>
    \o (IF Truthy(district) THEN <<"select_district">> ELSE <<>>)
    \o <<"wait_idle_state">>
    \o (IF Truthy(district) THEN <<"wait_idle_district">> ELSE <<>>)
    \o (IF Truthy(complex_name) THEN <<"select_complex">> ELSE <<>>)
    \o <<"fill_date", "click_submit", "wait_idle_submit", "query_links">>

\* the statements of download_causelist_for_complex before its loop, in order
CauseListSteps(district, complex_name) ==
    <<"goto", "select_state", "wait_idle_state">>
    \o (IF Truthy(district) THEN <<"select_district", "wait_idle_district">> ELSE <<>>)
    \o (IF Truthy(complex_name) THEN <<"select_complex">> ELSE <<>>)
    \o <<"fill_date", "click_submit", "wait_idle_submit", "query_links">>

\* the statements of find_case_by_cnr before its loop, in order
CnrSteps ==
    <<"goto", "wait_cnr_input", "fill_cnr", "click_submit", "wait_idle", "query_rows">>

StepsOf(e) ==
    IF e.flow = "cnr" THEN CnrSteps
    ELSE CauseListSteps(e.args.district, e.args.complex)

\* mutant of safe_name: the trailing whitespace is kept
safe_name_NoTrim(judge_text) ==
    SelectSeq(judge_text, LAMBDA c : isalnum(c) \/ c \in {" ", "."})

\* safe_name: the judge label made fit for a file name
safe_name(judge_text) ==
    rstrip(SelectSeq(judge_text, LAMBDA c : isalnum(c) \/ c \in {" ", "."}))

\* mutant of judge_label: an empty label is kept
judge_label_KeepsEmpty(text, idx) == strip(text)

\* judge_text = link.inner_text().strip() or f"Judge_{idx+1}"  (idx is 0-based)
judge_label(text, idx) ==
    IF strip(text) # <<>> THEN strip(text)
    ELSE <<"J", "u", "d", "g", "e", "_", Str(idx + 1)>>

\* what the portal can show: anchors whose href ends in .pdf, and result rows
AnchorTexts == { <<>>, <<"A", " ">>, <<"A", "/">> }
AnchorTextsWeb == { <<>> }
Anchors(texts) == [text : texts, href : {"x.pdf"}, ok : BOOLEAN]

RowTexts == { <<>>, <<" ">>, <<"A", "B">>, <<" ", "A", "B">>, <<"B", "A">> }
Rows == [text : RowTexts, ncells : {2}, pdf : {NONE, "x.pdf"}, ok : {TRUE}]
      \cup [text : {<<"A", "B">>}, ncells : {1}, pdf : {"x.pdf"}, ok : {FALSE}]
      \cup [text : {<<" ", "A", "B">>}, ncells : {0}, pdf : {NONE}, ok : {TRUE}]

SeqsUpTo(S, n) == UNION { [1..k -> S] : k \in 0..n }

\* the exceptions a statement of a flow may raise: PlaywrightTimeoutError or
\* another Exception (the two except clauses differ in the message they log)
Raised(p) == IF p = CLI THEN {"timeout", "error"} ELSE {"error"}

\* the elements a query_selector_all of process p may return
Pages(p, flow) ==
    IF flow = "cnr" THEN SeqsUpTo(Rows, MaxRows)
    ELSE IF p = CLI THEN SeqsUpTo(Anchors(AnchorTexts), MaxAnchors)
    ELSE SeqsUpTo(Anchors(AnchorTextsWeb), MaxAnchorsWeb)

\* a process that is not running; rc and stderr are read once pc is "exited"
EngOff ==
    [pc |-> "off", args |-> NoCmd, flow |-> "none", step |-> 0, page |-> <<>>,
     idx |-> 0, out |-> <<>>, err |-> NONE, result |-> "none",
     rc |-> 0, stderr |-> <<>>]

\* what a run leaves on stderr, as lines: the error its flow logged (logging
\* writes to stderr), then the traceback of the exception that ended it
Stderr(log, exc) ==
    (IF log # NONE THEN <<log>> ELSE <<>>) \o (IF exc # NONE THEN <<exc>> ELSE <<>>)

\* the lines the except clauses of the two flows log
FlowErrors == {"timeout", "error"}

\* the process ends: only its exit code and what it wrote to stderr remain
Exit(e, rc, stderr) == [EngOff EXCEPT !.pc = "exited", !.rc = rc, !.stderr = stderr]

\* main(), lines 209-241: parse the date, choose the flow
MainStart(p) ==
    /\ eng[p].pc = "main"
    /\ LET e == eng[p]
           a == e.args
       IN eng' = [eng EXCEPT ![p] =
                IF DateRaises(a) THEN Exit(e, 1, Stderr(NONE, "ValueError"))
                ELSE IF a.cnr # NoCnr
                    THEN [e EXCEPT !.pc = "flow", !.flow = "cnr", !.step = 1]
                ELSE IF a.causelist
                    THEN IF ~Truthy(a.state) \/ ~Truthy(a.district) \/ ~Truthy(a.complex)
                         THEN [e EXCEPT !.pc = "save", !.err = "requires"]
                         ELSE [e EXCEPT !.pc = "flow", !.flow = "causelist", !.step = 1]
                ELSE [e EXCEPT !.pc = "save"]]
    /\ resp' = NoResp
    /\ UNCHANGED <<JOBS, thr, nthr, json_dir, pdf_dir, now>>

\* the flow has returned: what main() puts in result_data
FlowReturned(e) == [e EXCEPT !.pc = "save", !.result =
                        IF e.flow = "cnr" THEN "cases_found" ELSE "cause_list"]

\* one statement of a flow before its loop; an exception of either kind is
\* caught by the flow's except clauses, which log it and fall to the return.
\* The last statement is the query_selector_all whose elements the loop visits.
FlowStep(p) ==
    /\ eng[p].pc = "flow"
    /\ LET e == eng[p]
           steps == StepsOf(e)
       IN \/ \E kind \in Raised(p) :
                eng' = [eng EXCEPT ![p] = FlowReturned([e EXCEPT !.err = kind])]
          \/ /\ e.step < Len(steps)
             /\ eng' = [eng EXCEPT ![p] = [e EXCEPT !.step = e.step + 1]]
          \/ /\ e.step = Len(steps)
             /\ \E page \in Pages(p, e.flow) :
                    eng' = [eng EXCEPT ![p] =
                              [e EXCEPT !.pc = "loop", !.page = page, !.idx = 0]]
    /\ resp' = NoResp
    /\ UNCHANGED <<JOBS, thr, nthr, json_dir, pdf_dir, now>>

\* mutant of download_attachment: a path is returned although nothing was written
download_attachment_PathAnyway(ok, filename) ==
    [written |-> ok, saved_path |-> filename]

\* download_attachment: the file is written, and its path returned, only when
\* the response is ok; a bad response or an exception returns None
download_attachment(ok, filename) ==
    IF ok THEN [written |-> TRUE, saved_path |-> filename]
    ELSE [written |-> FALSE, saved_path |-> NoPath]

\* outputs/pdfs after a write of filename at the current time
WritePdf(dir, filename, t) ==
    [f \in DOMAIN dir \cup {filename} |-> IF f = filename THEN t ELSE dir[f]]

\* one pass of the loop of download_causelist_for_complex, lines 185-199
JudgeIteration(e, link, t) ==
    LET judge_text == judge_label(link.text, e.idx)
        judge_entry == [judge_text |-> judge_text, pdf_link |-> link.href]
        wanted == e.args.download_pdf /\ Truthy(link.href)
        filename == <<get_date_to_check(e.args), e.args.complex, safe_name(judge_text)>>
        dl == IF wanted THEN download_attachment(link.ok, filename)
              ELSE download_attachment(FALSE, filename)
        entry == IF dl.saved_path # NoPath
                 THEN [downloaded_pdf |-> dl.saved_path] @@ judge_entry
                 ELSE judge_entry
    IN [eng |-> [e EXCEPT !.idx = e.idx + 1, !.out = Append(e.out, entry)],
        pdfs |-> IF dl.written THEN WritePdf(pdf_dir, filename, t) ELSE pdf_dir]

\* mutant of RowSkipped: the CNR test is left out
RowSkipped_EmptyOnly(txt, cnr) == txt = <<>>

\* the test of line 124: a row is skipped when its text is empty or lacks the CNR
RowSkipped(txt, cnr) == txt = <<>> \/ ~contains(txt, cnr)

\* one pass of the loop of find_case_by_cnr, lines 122-144
RowIteration(e, r, t) ==
    LET cnr == e.args.cnr
        txt == strip(r.text)
        serial == IF r.ncells > 0 THEN "cell0" ELSE "N/A"
        court == IF r.ncells > 1 THEN "cell1" ELSE "N/A"
        result_item == [row_text |-> txt, serial |-> serial, court |-> court,
                        pdf_link |-> r.pdf]
        wanted == e.args.download_pdf /\ Truthy(r.pdf)
        filename == <<cnr, t>>
        dl == IF wanted THEN download_attachment(r.ok, filename)
              ELSE download_attachment(FALSE, filename)
        item == IF dl.saved_path # NoPath
                THEN [downloaded_pdf |-> dl.saved_path] @@ result_item
                ELSE result_item
    IN IF RowSkipped(txt, cnr)
       THEN [eng |-> [e EXCEPT !.idx = e.idx + 1], pdfs |-> pdf_dir]
       ELSE [eng |-> [e EXCEPT !.idx = e.idx + 1, !.out = Append(e.out, item)],
             pdfs |-> IF dl.written THEN WritePdf(pdf_dir, filename, t) ELSE pdf_dir]

\* one pass of a flow's loop, or an exception raised in it (caught as above)
LoopStep(p) ==
    /\ eng[p].pc = "loop"
    /\ eng[p].idx < Len(eng[p].page)
    /\ LET e == eng[p]
           x == e.page[e.idx + 1]
           it == IF e.flow = "cnr" THEN RowIteration(e, x, now)
                 ELSE JudgeIteration(e, x, now)
       IN \/ /\ eng' = [eng EXCEPT ![p] = it.eng]
             /\ pdf_dir' = it.pdfs
          \/ /\ \E kind \in Raised(p) :
                    eng' = [eng EXCEPT ![p] = FlowReturned([e EXCEPT !.err = kind])]
             /\ UNCHANGED pdf_dir
    /\ resp' = NoResp
    /\ UNCHANGED <<JOBS, thr, nthr, json_dir, now>>

\* the loop is exhausted: the flow returns what it has built
FlowReturn(p) ==
    /\ eng[p].pc = "loop"
    /\ eng[p].idx = Len(eng[p].page)
    /\ eng' = [eng EXCEPT ![p] = FlowReturned(eng[p])]
    /\ resp' = NoResp
    /\ UNCHANGED <<JOBS, thr, nthr, json_dir, pdf_dir, now>>

\* save_json: the name of the result document
JsonName(basename, t) ==
    [base |-> IF Truthy(basename) THEN basename ELSE "ecourts_result", ts |-> t]

\* main(), lines 243-249: save the result if there is one, close the browser
MainFinish(p) ==
    /\ eng[p].pc = "save"
    /\ LET e == eng[p]
           fname == JsonName(e.args.output, now)
           has_result == e.result # "none"
       IN /\ json_dir' = IF has_result THEN json_dir \cup {fname} ELSE json_dir
          /\ \E closed \in BOOLEAN :
                eng' = [eng EXCEPT ![p] =
                    Exit(e, IF closed THEN 0 ELSE 1,
                         Stderr(e.err, IF closed THEN NONE ELSE "playwright Error"))]
    /\ resp' = NoResp
    /\ UNCHANGED <<JOBS, thr, nthr, pdf_dir, now>>

-----------------------------------------------------------------------------
(* src/flask_app.py: the job orchestrator *)

\* f"web_{job_id}", the --output base name of a job
WebBase(job_id) == CASE job_id = "id1" -> "web_id1"
                     [] job_id = "id2" -> "web_id2"
                     [] OTHER -> "web_id3"

\* the command line run_job builds, as the arguments main.py parses from it
BuildCmd(form, job_id) ==
    [causelist |-> TRUE, state |-> form.state, district |-> form.district,
     complex |-> form.complex, date |-> form.date, output |-> WebBase(job_id),
     headless |-> TRUE, download_pdf |-> TRUE, cnr |-> NoCnr,
     today |-> FALSE, tomorrow |-> FALSE]

\* ' '.join(cmd) raises TypeError when an element is None
JoinRaises(cmd) ==
    NONE \in {cmd.state, cmd.district, cmd.complex, cmd.date}

ThreadOff == [pc |-> "off", job_id |-> NONE, cmd |-> NoCmd, start_time |-> 0,
              stderr |-> <<>>, files |-> {}, pdfs |-> {}]

\* the thread has returned: its locals are gone
ThreadDone(th) == [ThreadOff EXCEPT !.pc = "done", !.job_id = th.job_id]

\* JOBS[job_id] = value
SetJob(jobs, job_id, value) ==
    [j \in DOMAIN jobs \cup {job_id} |-> IF j = job_id THEN value ELSE jobs[j]]

\* mutant of UpdateJob: a key the job has already keeps its value
UpdateJob_KeepsOld(jobs, job_id, d) == [jobs EXCEPT ![job_id] = jobs[job_id] @@ d]

\* JOBS[job_id].update(d)
UpdateJob(jobs, job_id, d) == [jobs EXCEPT ![job_id] = d @@ jobs[job_id]]

\* POST /run
run_job ==
    /\ nthr < MaxJobs
    /\ \E job_id \in JobIds, form \in Forms :
        LET cmd == BuildCmd(form, job_id)
            t == nthr + 1
        IN IF JoinRaises(cmd)
           THEN /\ resp' = [code |-> 500, job_id |-> NONE, body |-> NoBody]
                /\ UNCHANGED <<JOBS, thr, nthr>>
           ELSE /\ JOBS' = SetJob(JOBS, job_id, [status |-> "pending", command |-> cmd])
                /\ thr' = [thr EXCEPT ![t] = [ThreadOff EXCEPT !.pc = "started",
                                                !.job_id = job_id, !.cmd = cmd]]
                /\ nthr' = t
                /\ resp' = [code |-> 302, job_id |-> job_id, body |-> NoBody]
    /\ UNCHANGED <<eng, json_dir, pdf_dir, now>>

\* run_scraper_task, lines 22-26: mark the job running, note the time, launch
StartTask(t) ==
    /\ thr[t].pc = "started"
    /\ JOBS' = UpdateJob(JOBS, thr[t].job_id, [status |-> "running"])
    /\ thr' = [thr EXCEPT ![t].pc = "subprocess", ![t].start_time = now]
    /\ eng' = [eng EXCEPT ![t] = [EngOff EXCEPT !.pc = "main", !.args = thr[t].cmd]]
    /\ resp' = NoResp
    /\ UNCHANGED <<nthr, json_dir, pdf_dir, now>>

\* mutant of FailJob: the job is marked completed, with an empty result
FailJob_EmptyResult(jobs, job_id, message) ==
    UpdateJob(jobs, job_id, [status |-> "completed", output_file |-> NONE, pdfs |-> {}])

\* the except clause, lines 61-66
FailJob(jobs, job_id, message) ==
    UpdateJob(jobs, job_id, [status |-> "failed", error |-> message])

\* OUTPUT_DIR.glob(f"web_{job_id}_*.json")
GlobJson(dir, job_id) == { f \in dir : f.base = WebBase(job_id) }

\* sorted(files)[-1]: the names differ in their fixed-width timestamp only
LastFile(files) == CHOOSE f \in files : \A g \in files : g.ts <= f.ts

MissingOutput == <<"Scraper ran but did not produce an output file.">>

\* mutant of AfterRun: the exit code is not looked at
AfterRun_IgnoresExitCode(t) ==
    /\ thr[t].pc = "subprocess"
    /\ eng[t].pc = "exited"
    /\ LET files == GlobJson(json_dir, thr[t].job_id)
       IN IF files = {}
          THEN /\ JOBS' = FailJob(JOBS, thr[t].job_id, MissingOutput)
               /\ thr' = [thr EXCEPT ![t] = ThreadDone(thr[t])]
          ELSE /\ thr' = [thr EXCEPT ![t].pc = "globbed", ![t].files = files,
                                     ![t].stderr = eng[t].stderr]
               /\ UNCHANGED JOBS
    /\ eng' = [eng EXCEPT ![t] = EngOff]
    /\ resp' = NoResp
    /\ UNCHANGED <<nthr, json_dir, pdf_dir, now>>

\* lines 35-41: the subprocess has ended; raise on a non-zero exit code or on
\* a missing result document (the raise and the except clause are one step)
AfterRun(t) ==
    /\ thr[t].pc = "subprocess"
    /\ eng[t].pc = "exited"
    /\ LET files == GlobJson(json_dir, thr[t].job_id)
       IN IF eng[t].rc # 0
          THEN /\ JOBS' = FailJob(JOBS, thr[t].job_id, eng[t].stderr)
               /\ thr' = [thr EXCEPT ![t] = ThreadDone(thr[t])]
          ELSE IF files = {}
          THEN /\ JOBS' = FailJob(JOBS, thr[t].job_id, MissingOutput)
               /\ thr' = [thr EXCEPT ![t] = ThreadDone(thr[t])]
          ELSE /\ thr' = [thr EXCEPT ![t].pc = "globbed", ![t].files = files,
                                     ![t].stderr = eng[t].stderr]
               /\ UNCHANGED JOBS
    /\ eng' = [eng EXCEPT ![t] = EngOff]
    /\ resp' = NoResp
    /\ UNCHANGED <<nthr, json_dir, pdf_dir, now>>

\* mutant of InWindow: the window opens at the start time
InWindow_NoSlack(mtime, start_time) == mtime >= start_time

\* the test of line 49
InWindow(mtime, start_time) == mtime >= start_time - 1

\* mutant of ScanPdfs: a PDF another job lists already is left out
ScanPdfs_Exclusive(dir, start_time) ==
    { f \in DOMAIN dir :
        /\ dir[f] >= start_time - 1
        /\ ~\E id \in DOMAIN JOBS :
              "pdfs" \in DOMAIN JOBS[id] /\ f \in JOBS[id].pdfs }

\* lines 44-52: the names of the PDFs the job takes as its own (the list is
\* sorted and has no duplicates, so the set of its elements determines it)
ScanPdfs(dir, start_time) == { f \in DOMAIN dir : InWindow(dir[f], start_time) }

CollectPdfs(t) ==
    /\ thr[t].pc = "globbed"
    /\ thr' = [thr EXCEPT ![t].pc = "scanned",
                          ![t].pdfs = ScanPdfs(pdf_dir, thr[t].start_time)]
    /\ resp' = NoResp
    /\ UNCHANGED <<JOBS, nthr, eng, json_dir, pdf_dir, now>>

\* lines 55-59
CompleteJob(jobs, job_id, files, pdfs) ==
    UpdateJob(jobs, job_id, [status |-> "completed",
                             output_file |-> LastFile(files), pdfs |-> pdfs])

Complete(t) ==
    /\ thr[t].pc = "scanned"
    /\ JOBS' = CompleteJob(JOBS, thr[t].job_id, thr[t].files, thr[t].pdfs)
    /\ thr' = [thr EXCEPT ![t] = ThreadDone(thr[t])]
    /\ resp' = NoResp
    /\ UNCHANGED <<nthr, eng, json_dir, pdf_dir, now>>

\* JOBS.get(job_id), then 404 or the job itself
StatusResponse(jobs, job_id) ==
    IF job_id \notin DOMAIN jobs
    THEN [code |-> 404, job_id |-> job_id, body |-> NoBody]
    ELSE [code |-> 200, job_id |-> job_id, body |-> jobs[job_id]]

\* GET /status/<job_id>
get_status ==
    /\ \E job_id \in JobIds : resp' = StatusResponse(JOBS, job_id)
    /\ UNCHANGED <<JOBS, thr, nthr, eng, json_dir, pdf_dir, now>>

\* GET /api/status/<job_id>
api_status ==
    /\ \E job_id \in JobIds : resp' = StatusResponse(JOBS, job_id)
    /\ UNCHANGED <<JOBS, thr, nthr, eng, json_dir, pdf_dir, now>>

\* time passes
Tick ==
    /\ now < MaxTime
    /\ now' = now + 1
    /\ resp' = NoResp
    /\ UNCHANGED <<JOBS, thr, nthr, eng, json_dir, pdf_dir>>

-----------------------------------------------------------------------------
(* The web application: requests, background threads and their engines *)

Init ==
    /\ JOBS = <<>>
    /\ thr = [t \in Threads |-> ThreadOff]
    /\ nthr = 0
    /\ eng = [p \in Procs |-> EngOff]
    /\ json_dir = {}
    /\ pdf_dir = <<>>
    /\ now = 0
    /\ resp = NoResp

Next ==
    \/ run_job
    \/ \E t \in Threads : StartTask(t)
    \/ \E t \in Threads : MainStart(t)
    \/ \E t \in Threads : FlowStep(t)
    \/ \E t \in Threads : LoopStep(t)
    \/ \E t \in Threads : FlowReturn(t)
    \/ \E t \in Threads : MainFinish(t)
    \/ \E t \in Threads : AfterRun(t)
    \/ \E t \in Threads : CollectPdfs(t)
    \/ \E t \in Threads : Complete(t)
    \/ get_status
    \/ api_status
    \/ Tick

Spec == Init /\ [][Next]_vars

\* a step of the background thread t or of the engine it waits for
TaskStep(t) ==
    \/ StartTask(t)
    \/ MainStart(t)
    \/ FlowStep(t)
    \/ LoopStep(t)
    \/ FlowReturn(t)
    \/ MainFinish(t)
    \/ AfterRun(t)
    \/ CollectPdfs(t)
    \/ Complete(t)

\* where thread t and its engine are: every TaskStep(t) changes it
Progress(t) == <<thr[t].pc, eng[t].pc, eng[t].step, eng[t].idx>>

\* the web application when every started thread is scheduled and its
\* subprocess runs on: a thread (or its engine) that can take a step takes one
SpecFair == Spec /\ \A t \in Threads : WF_Progress(t)(TaskStep(t))

-----------------------------------------------------------------------------
(* A command-line run of main.py, outside the web application *)

\* the command lines tried: a CNR lookup, a cause list, or neither
CliArgs ==
    { a \in [cnr : {NoCnr, <<"A", "B">>}, causelist : BOOLEAN,
             state : {NONE, "v"}, district : {"v"}, complex : {NONE, "v"},
             date : {NONE, "2025-10-18", "bad"}, today : BOOLEAN,
             tomorrow : {FALSE}, download_pdf : BOOLEAN, output : {NONE, "out"},
             headless : {TRUE}] :
        /\ (a.cnr # NoCnr => ~a.causelist /\ a.state = NONE /\ a.complex = NONE)
        /\ (a.today => a.date = NONE)
        /\ (~a.causelist => a.state = NONE /\ a.complex = NONE) }

\* python main.py <args>
CliRun ==
    /\ eng[CLI].pc = "off"
    /\ \E args \in CliArgs :
          eng' = [eng EXCEPT ![CLI] = [EngOff EXCEPT !.pc = "main", !.args = args]]
    /\ resp' = NoResp
    /\ UNCHANGED <<JOBS, thr, nthr, json_dir, pdf_dir, now>>

NextCli ==
    \/ CliRun
    \/ MainStart(CLI)
    \/ FlowStep(CLI)
    \/ LoopStep(CLI)
    \/ FlowReturn(CLI)
    \/ MainFinish(CLI)
    \/ Tick

SpecCli == Init /\ [][NextCli]_vars

-----------------------------------------------------------------------------
(* The loop of download_causelist_for_complex on one anchor, for every label *)

MaxLabelLen == 3

\* the characters of a label: a letter, a digit, a space, a period, and two
\* characters that are none of these
LabelChars == {"A", "1", " ", ".", "/", "_"}

Labels == SeqsUpTo(LabelChars, MaxLabelLen)

\* python main.py --causelist --state v --district v --complex v
\*                --date 2025-10-18 --download-pdf
LabelArgs ==
    [cnr |-> NoCnr, causelist |-> TRUE, state |-> "v", district |-> "v",
     complex |-> "v", date |-> "2025-10-18", today |-> FALSE, tomorrow |-> FALSE,
     download_pdf |-> TRUE, output |-> NONE, headless |-> TRUE]

\* the flow has found one anchor, whose text is any label
InitLabel ==
    /\ JOBS = <<>>
    /\ thr = [t \in Threads |-> ThreadOff]
    /\ nthr = 0
    /\ \E text \in Labels, ok \in BOOLEAN :
          eng = [p \in Procs |->
                   IF p = CLI
                   THEN [EngOff EXCEPT !.pc = "loop", !.args = LabelArgs,
                                       !.flow = "causelist",
                                       !.step = Len(CauseListSteps("v", "v")),
                                       !.page = <<[text |-> text, href |-> "x.pdf",
                                                   ok |-> ok]>>]
                   ELSE EngOff]
    /\ json_dir = {}
    /\ pdf_dir = <<>>
    /\ now = 0
    /\ resp = NoResp

NextLabel ==
    \/ LoopStep(CLI)
    \/ FlowReturn(CLI)

SpecLabel == InitLabel /\ [][NextLabel]_vars

-----------------------------------------------------------------------------
(* Properties of the job orchestrator, checked under Spec *)

Terminal == {"completed", "failed"}

\* the threads that run, or ran, a job
Started == { t \in Threads : thr[t].pc # "off" }

\* the threads whose background run has not finished
Unfinished == { t \in Threads : thr[t].pc \notin {"off", "done"} }

\* C1: a job's status only moves pending -> running -> completed | failed:
\* once it is completed or failed, no step changes it, and a step changes a
\* status only to the next one in that order.
C1_StatusMovesForward ==
    [][\A id \in DOMAIN JOBS :
          LET old == JOBS[id].status
              new == JOBS'[id].status
          IN /\ old \in Terminal => new = old
             /\ old = "running" => new \in {"running"} \cup Terminal
             /\ old = "pending" => new \in {"pending", "running"}]_vars

\* C2: a request that lacks state, district or complex (absent or empty)
\* creates no job: every entry of the registry, and every thread started,
\* comes from a request that has all three.
C2_IncompleteRequestCreatesNoJob ==
    /\ \A id \in DOMAIN JOBS :
          LET c == JOBS[id].command
          IN Truthy(c.state) /\ Truthy(c.district) /\ Truthy(c.complex)
    /\ \A t \in Unfinished :
          LET c == thr[t].cmd
          IN Truthy(c.state) /\ Truthy(c.district) /\ Truthy(c.complex)

\* what a job view may hold in each status
ViewConsistent(job) ==
    LET keys == DOMAIN job
    IN /\ job.status = "completed" =>
            {"output_file", "pdfs"} \subseteq keys /\ "error" \notin keys
       /\ job.status = "failed" =>
            "error" \in keys /\ keys \cap {"output_file", "pdfs"} = {}
       /\ job.status \in {"pending", "running"} =>
            keys \cap {"output_file", "pdfs", "error"} = {}

\* C3: no status read observes a half-updated job: a completed view has its
\* result and no error, a failed view has its error and no result, a pending
\* or running view has neither.
C3_ReadsSeeWholeJobs ==
    resp.code = 200 => ViewConsistent(resp.body)

\* C4: a status read of a job whose background run has not finished returns
\* pending or running.
C4_UnfinishedReadsPendingOrRunning ==
    [][\A t \in Unfinished :
          (resp'.code = 200 /\ resp'.job_id = thr[t].job_id)
              => resp'.body.status \in {"pending", "running"}]_vars

\* C5: a job whose engine run had a failure that broke its flow (a step or
\* the loop raised) ends failed, never completed.
C5_FlowFailureFailsJob ==
    [][\A t \in Threads :
          (/\ thr[t].pc = "scanned"
           /\ \E i \in DOMAIN thr[t].stderr : thr[t].stderr[i] \in FlowErrors
           /\ thr'[t].pc = "done")
              => JOBS'[thr[t].job_id].status = "failed"]_vars

\* C6: when the engine exits with code 0 and no result document of the job is
\* in outputs/, the thread's next step marks the job failed with the
\* missing-output message; it does not complete it.
C6_MissingOutputFails ==
    [][\A t \in Threads :
          (/\ thr[t].pc = "subprocess"
           /\ eng[t].pc = "exited"
           /\ eng[t].rc = 0
           /\ ~\E f \in json_dir : f.base = WebBase(thr[t].job_id)
           /\ thr'[t] # thr[t])
              => /\ JOBS'[thr[t].job_id].status = "failed"
                 /\ JOBS'[thr[t].job_id].error = MissingOutput
                 /\ thr'[t].pc = "done"]_vars

\* C6 witness: a job failed for its missing result document
C6_Witness ==
    \E id \in DOMAIN JOBS :
        /\ JOBS[id].status = "failed"
        /\ JOBS[id].error = MissingOutput

\* C7: run_job never returns an identifier that is already a key of the
\* registry.
C7_IdentifiersAreFresh ==
    [][resp'.code = 302 => resp'.job_id \notin DOMAIN JOBS]_vars

\* C8: attribution is not exclusive: when a thread scans outputs/pdfs, every
\* PDF modified no earlier than one second before its start goes into its
\* list, whether or not another job lists it already.
C8_AttributionNotExclusive ==
    [][\A t \in Threads :
          (thr[t].pc = "globbed" /\ thr'[t].pc = "scanned")
              => \A f \in DOMAIN pdf_dir :
                    pdf_dir[f] >= thr[t].start_time - 1 => f \in thr'[t].pdfs]_vars

\* no identifier was given to two jobs
NoCollision == \A t, u \in Started : t # u => thr[t].job_id # thr[u].job_id

\* C1, C3 and C4 fail through a repeated identifier only (C7): the runs in
\* which run_job draws no identifier twice satisfy all three.
HoldsWithoutCollision ==
    [][NoCollision' =>
        /\ \A id \in DOMAIN JOBS :
              LET old == JOBS[id].status
                  new == JOBS'[id].status
              IN /\ old \in Terminal => new = old
                 /\ old = "running" => new \in {"running"} \cup Terminal
                 /\ old = "pending" => new \in {"pending", "running"}
        /\ \A id \in DOMAIN JOBS' : ViewConsistent(JOBS'[id])
        /\ \A t \in Unfinished :
              (resp'.code = 200 /\ resp'.job_id = thr[t].job_id)
                  => resp'.body.status \in {"pending", "running"}]_vars

\* C8 witness: two distinct jobs, both completed, list the same PDF
C8_Witness ==
    \E i, j \in DOMAIN JOBS :
        /\ i # j
        /\ JOBS[i].status = "completed"
        /\ JOBS[j].status = "completed"
        /\ "error" \notin DOMAIN JOBS[i] \cup DOMAIN JOBS[j]
        /\ JOBS[i].pdfs \cap JOBS[j].pdfs # {}

-----------------------------------------------------------------------------
(* Properties of the extraction engine, checked under SpecCli *)

\* the k-th smallest element of a set of numbers
Nth(S, k) == CHOOSE i \in S : Cardinality({ j \in S : j <= i }) = k

\* t has sub as a substring
HasSub(t, sub) ==
    \E i \in 1..(Len(t) + 1), j \in 0..Len(t) : SubSeq(t, i, j) = sub

\* a row the CNR lookup keeps: its stripped text is not empty and has the CNR
Matches(row, cnr) == strip(row.text) # <<>> /\ HasSub(strip(row.text), cnr)

\* the elements, among the first n of the page, that give an entry
KeptUpTo(e, n) ==
    { i \in 1..n : e.flow = "causelist" \/ Matches(e.page[i], e.args.cnr) }

\* the PDF link of an element of the page
LinkOf(e, x) == IF e.flow = "cnr" THEN x.pdf ELSE x.href

\* an element whose PDF the flow tries to download
Tried(e, x) == e.args.download_pdf /\ LinkOf(e, x) \notin {NONE, ""}

\* C9: a failed PDF download neither drops the entry nor fails the flow. A
\* pass of the loop that ends without an exception leaves the flow in its
\* loop with no error, and for an element that gives an entry it appends
\* exactly that entry; the entry has downloaded_pdf exactly when the download
\* was tried and succeeded, and then the file is in outputs/pdfs with the
\* current time; otherwise no file is written. No later step of the flow
\* removes an entry.
C9_FailedDownloadKeepsEntry ==
    [][LET e == eng[CLI]
           f == eng'[CLI]
       IN /\ (e.pc = "loop" /\ f.idx = e.idx + 1) =>
                LET x == e.page[e.idx + 1]
                    new == f.out[Len(f.out)]
                    saved == Tried(e, x) /\ x.ok
                IN /\ f.pc = "loop"
                   /\ f.err = NONE
                   /\ IF (e.idx + 1) \in KeptUpTo(e, e.idx + 1)
                      THEN /\ Len(f.out) = Len(e.out) + 1
                           /\ SubSeq(f.out, 1, Len(e.out)) = e.out
                           /\ new.pdf_link = LinkOf(e, x)
                           /\ "downloaded_pdf" \in DOMAIN new <=> saved
                           /\ saved => /\ new.downloaded_pdf \in DOMAIN pdf_dir'
                                       /\ pdf_dir'[new.downloaded_pdf] = now
                           /\ ~saved => pdf_dir' = pdf_dir
                      ELSE /\ f.out = e.out
                           /\ pdf_dir' = pdf_dir
          /\ (e.pc = "loop" /\ f.pc \in {"loop", "save"} /\ f.idx = e.idx) =>
                f.out = e.out]_vars

\* C9 witness: a flow returned normally with an entry whose download failed
\* followed by an entry whose download succeeded
C9_Witness ==
    LET e == eng[CLI]
    IN /\ e.pc = "save"
       /\ e.err = NONE
       /\ e.args.download_pdf
       /\ Len(e.out) = 2
       /\ ~e.page[1].ok
       /\ "downloaded_pdf" \notin DOMAIN e.out[1]
       /\ "downloaded_pdf" \in DOMAIN e.out[2]

\* C10: when every step of the CNR lookup succeeds, the result holds exactly
\* the rows whose stripped text is not empty and contains the CNR, in the
\* order of the page.
C10_CnrRowsFiltered ==
    LET e == eng[CLI]
        texts == [i \in 1..Len(e.page) |-> strip(e.page[i].text)]
        kept == KeptUpTo(e, Len(e.page))
    IN (e.flow = "cnr" /\ e.pc = "save" /\ e.err = NONE) =>
          /\ [k \in 1..Len(e.out) |-> e.out[k].row_text]
                = SelectSeq(texts, LAMBDA t : t # <<>> /\ HasSub(t, e.args.cnr))
          /\ Len(e.out) = Cardinality(kept)
          /\ \A k \in 1..Len(e.out) :
                LET x == e.page[Nth(kept, k)]
                IN /\ e.out[k].row_text = strip(x.text)
                   /\ e.out[k].pdf_link = x.pdf

\* C10 witness: a lookup that kept one row of two and left out a row whose
\* text is not empty
C10_Witness ==
    LET e == eng[CLI]
    IN /\ e.flow = "cnr" /\ e.pc = "save" /\ e.err = NONE
       /\ Len(e.page) = 2
       /\ Len(e.out) = 1
       /\ \E i \in 1..2 : strip(e.page[i].text) # <<>> /\ ~Matches(e.page[i], e.args.cnr)

-----------------------------------------------------------------------------
(* Further properties of the job orchestrator, checked under Spec *)

\* a step that returns the response of a status request
StatusReturned == resp'.code \in {200, 404}

\* the read-only part of C11 holds in every run: a status request changes
\* nothing but the response, answers 404 exactly for an identifier that is
\* not a key of the registry, and otherwise returns the entry as it is
StatusChangesNothing ==
    [][StatusReturned =>
          /\ UNCHANGED <<JOBS, thr, nthr, eng, json_dir, pdf_dir, now>>
          /\ resp'.code = 404 <=> resp'.job_id \notin DOMAIN JOBS
          /\ resp'.code = 200 => resp'.body = JOBS[resp'.job_id]]_vars

\* C11: status is read-only: a status request leaves the registry unchanged
\* and answers 404 for an unknown identifier, and what a status request
\* returns for a job that is completed or failed (its status, result and
\* error) is the same before and after every step, so any two requests for
\* it return the same.
C11_StatusIsReadOnly ==
    [][/\ StatusReturned =>
            /\ JOBS' = JOBS
            /\ resp'.job_id \notin DOMAIN JOBS => resp'.code = 404
       /\ \A id \in DOMAIN JOBS :
            JOBS[id].status \in Terminal =>
                StatusResponse(JOBS', id) = StatusResponse(JOBS, id)]_vars

\* C15: a PDF is in a completed job's pdfs exactly when it was in outputs/pdfs
\* when the thread scanned it with a modification time at or after the job's
\* start time minus one second: the scan takes exactly those files, however
\* late they were modified, and the completion stores what the scan took.
C15_PdfsAreTheWindow ==
    [][\A t \in Threads :
          /\ (thr[t].pc = "globbed" /\ thr'[t].pc = "scanned") =>
                thr'[t].pdfs =
                    { f \in DOMAIN pdf_dir : pdf_dir[f] + 1 >= thr[t].start_time }
          /\ (thr[t].pc = "scanned" /\ thr'[t].pc = "done") =>
                /\ JOBS'[thr[t].job_id].status = "completed"
                /\ JOBS'[thr[t].job_id].pdfs = thr[t].pdfs]_vars

\* C15 witness: a job about to complete has collected a PDF that was written
\* after its own engine had saved its result document, while a job with
\* another identifier that started later was running
C15_Witness ==
    \E t, u \in Threads :
        /\ thr[t].pc = "scanned"
        /\ thr[u].pc \in {"subprocess", "globbed", "scanned"}
        /\ thr[u].job_id # thr[t].job_id
        /\ thr[u].start_time > thr[t].start_time
        /\ \E f \in thr[t].pdfs :
              /\ pdf_dir[f] >= thr[u].start_time
              /\ \A d \in json_dir : d.base = WebBase(thr[t].job_id) => d.ts < pdf_dir[f]

\* the name part of C16 holds in every run: the documents a thread globs are
\* those named for its job's identifier, and the output_file it stores is the
\* one of them with the last name. When no identifier was drawn twice it also
\* is a document of the job's own run.
OutputFileByName ==
    [][\A t \in Threads :
          /\ (thr[t].pc = "subprocess" /\ thr'[t].pc = "globbed") =>
                thr'[t].files = { f \in json_dir : f.base = WebBase(thr[t].job_id) }
          /\ (thr[t].pc = "scanned" /\ thr'[t].pc = "done") =>
                LET o == JOBS'[thr[t].job_id].output_file
                IN /\ o \in thr[t].files
                   /\ o.base = WebBase(thr[t].job_id)
                   /\ \A g \in thr[t].files : g.ts <= o.ts
                   /\ NoCollision =>
                        /\ o.ts >= thr[t].start_time
                        /\ \A i \in DOMAIN thr[t].stderr :
                              thr[t].stderr[i] # "requires"]_vars

\* C16: a completed job's output_file is a result document named for the job's
\* own identifier, the last by name of those that match, and never a document
\* produced for another job: it is not older than the job's start, and the
\* job's own run did not end without a result to save.
C16_OutputFileIsOwnDocument ==
    [][\A t \in Threads :
          (thr[t].pc = "scanned" /\ thr'[t].pc = "done") =>
              LET o == JOBS'[thr[t].job_id].output_file
              IN /\ o.base = WebBase(thr[t].job_id)
                 /\ \A g \in thr[t].files : g.ts <= o.ts
                 /\ o.ts >= thr[t].start_time
                 /\ \A i \in DOMAIN thr[t].stderr : thr[t].stderr[i] # "requires"]_vars

\* C19: every job created by run_job reaches completed or failed, when its
\* thread is scheduled and its subprocess ends: again and again every thread
\* started so far has returned and every job of the registry is completed or
\* failed (a thread that never returned, or a job left pending or running,
\* would make this false from some moment on).
C19_JobsEnd ==
    []<>(/\ \A t \in Threads : thr[t].pc \in {"off", "done"}
         /\ \A id \in DOMAIN JOBS : JOBS[id].status \in Terminal)

\* C19 witness: two jobs have ended, one completed and one failed because its
\* engine raised
C19_Witness ==
    \E t, u \in Threads :
        /\ thr[t].pc = "done"
        /\ thr[u].pc = "done"
        /\ thr[t].job_id # thr[u].job_id
        /\ JOBS[thr[t].job_id].status = "completed"
        /\ JOBS[thr[u].job_id].status = "failed"
        /\ JOBS[thr[u].job_id].error = <<"ValueError">>

\* C20: a job is completed only if its subprocess exited with code 0. When
\* the subprocess has ended, a non-zero exit code makes the thread mark the
\* job failed with the subprocess's stderr as the error and return, whether or
\* not outputs/ holds a result document of the job; the thread goes on to the
\* result only after an exit code 0, and only a thread that went on completes
\* a job.
C20_NonZeroExitFails ==
    [][\A t \in Threads :
          /\ (thr[t].pc = "subprocess" /\ thr'[t].pc # "subprocess") =>
                /\ eng[t].pc = "exited"
                /\ IF eng[t].rc # 0
                   THEN /\ thr'[t].pc = "done"
                        /\ JOBS'[thr[t].job_id].status = "failed"
                        /\ JOBS'[thr[t].job_id].error = eng[t].stderr
                   ELSE thr'[t].pc \in {"globbed", "done"}
          /\ (thr'[t].pc = "globbed" /\ thr[t].pc # "globbed") =>
                thr[t].pc = "subprocess" /\ eng[t].rc = 0
          /\ (thr'[t].pc = "scanned" /\ thr[t].pc # "scanned") =>
                thr[t].pc = "globbed"
          /\ (thr'[t].pc = "done" /\ thr[t].pc # "done"
                /\ JOBS'[thr[t].job_id].status = "completed") =>
                thr[t].pc = "scanned"]_vars

\* C20 witness: a job failed with the traceback of its engine although a
\* result document of the job is in outputs/, and no other job has its
\* identifier
C20_Witness ==
    \E t \in Threads :
        /\ thr[t].pc = "done"
        /\ NoCollision
        /\ JOBS[thr[t].job_id].status = "failed"
        /\ \E i \in DOMAIN JOBS[thr[t].job_id].error :
              JOBS[thr[t].job_id].error[i] = "playwright Error"
        /\ \E f \in json_dir : f.base = WebBase(thr[t].job_id)

-----------------------------------------------------------------------------
(* Further properties of the extraction engine, checked under SpecCli *)

\* C12: in the CNR lookup a timeout of the wait for network quiescence is not
\* fatal: whether that wait ends in time or times out, the flow goes on to
\* query the rows of the page.
C12_SettleTimeoutNotFatal ==
    [][LET e == eng[CLI]
           f == eng'[CLI]
       IN (/\ e.pc = "flow"
           /\ e.flow = "cnr"
           /\ CnrSteps[e.step] = "wait_idle"
           /\ f # e
           /\ f.err # "error")
              => /\ f.pc = "flow"
                 /\ CnrSteps[f.step] = "query_rows"]_vars

\* C13: the cause-list flow returns no partial result on failure: when a
\* statement or the loop raised, what the flow returns is a failure (main()
\* gets no cause list to save) and holds no judge entry.
C13_NoPartialResultOnFailure ==
    LET e == eng[CLI]
    IN (e.flow = "causelist" /\ e.pc = "save" /\ e.err \in FlowErrors) =>
          /\ e.result = "none"
          /\ e.out = <<>>

\* the order C14 gives to the statements of the cause-list flow
CauseListOrder ==
    <<"goto", "select_state", "wait_idle_state", "select_district",
      "wait_idle_district", "select_complex", "fill_date", "click_submit",
      "wait_idle_submit", "query_links">>

\* the statements the flow has finished, and the one it is at
Finished(e) == { StepsOf(e)[i] : i \in 1..(e.step - 1) }
Current(e) == StepsOf(e)[e.step]

\* a statement of the order that the arguments of the run call for
Supplied(e, s) ==
    /\ s \in {"select_district", "wait_idle_district"} => Truthy(e.args.district)
    /\ s = "select_complex" => Truthy(e.args.complex)

\* C14: the cause-list flow runs its statements one at a time in the order
\* navigate, select state, wait, select district, wait, select complex, set
\* date, submit, wait, extract: a statement is run only when every statement
\* before it in that order (that the arguments call for) has finished. So the
\* district is never selected before the wait after the state selection has
\* finished, and the anchors are never extracted before the submit and its
\* wait.
C14_CauseListStepsInOrder ==
    [][LET e == eng[CLI]
           f == eng'[CLI]
       IN /\ (f.pc = "flow" /\ f.flow = "causelist" /\ f # e) =>
                /\ f.step = IF e.pc = "flow" THEN e.step + 1 ELSE 1
                /\ \E i \in 1..Len(CauseListOrder) :
                      /\ Current(f) = CauseListOrder[i]
                      /\ \A j \in 1..(i - 1) :
                            Supplied(f, CauseListOrder[j])
                                => CauseListOrder[j] \in Finished(f)
                /\ Current(f) = "select_district" => "wait_idle_state" \in Finished(f)
          /\ (f.pc = "loop" /\ f.flow = "causelist" /\ e.pc # "loop") =>
                /\ e.pc = "flow"
                /\ Current(e) = "query_links"
                /\ {"click_submit", "wait_idle_submit"} \subseteq Finished(e)]_vars

\* C14 witness: a cause-list flow that ran every statement and is visiting
\* the anchors it extracted
C14_Witness ==
    LET e == eng[CLI]
    IN /\ e.flow = "causelist"
       /\ e.pc = "loop"
       /\ Len(e.page) > 0
       /\ Finished(e) \cup {Current(e)}
             = { CauseListOrder[i] : i \in 1..Len(CauseListOrder) }

\* C17: when the cause-list flow succeeds, judges has exactly one entry per
\* anchor, in the order of the page; the entry at position i (from 1) has the
\* anchor's href and, as label, the anchor's stripped text, or Judge_i when
\* that text is empty.
C17_OneEntryPerAnchor ==
    LET e == eng[CLI]
    IN (e.flow = "causelist" /\ e.pc = "save" /\ e.err = NONE) =>
          /\ Len(e.out) = Len(e.page)
          /\ \A i \in 1..Len(e.page) :
                LET text == strip(e.page[i].text)
                IN /\ e.out[i].pdf_link = e.page[i].href
                   /\ e.out[i].judge_text =
                        IF text = <<>> THEN <<"J", "u", "d", "g", "e", "_", Str(i)>>
                        ELSE text

\* C17 witness: a flow that succeeded on two anchors, the first with a text
\* and the second without
C17_Witness ==
    LET e == eng[CLI]
    IN /\ e.flow = "causelist" /\ e.pc = "save" /\ e.err = NONE
       /\ Len(e.page) = 2
       /\ strip(e.page[1].text) # <<>>
       /\ strip(e.page[2].text) = <<>>
       /\ e.out[2].judge_text = <<"J", "u", "d", "g", "e", "_", "2">>

-----------------------------------------------------------------------------
(* Properties of the sanitization of judge labels, checked under SpecLabel *)

\* the characters a sanitized label may hold
Allowed(c) == c \in Letters \cup Digits \cup {" ", "."}

\* C18: the sanitized label (the last part of the name of the downloaded
\* PDF) is the subsequence of the label's letters, digits, spaces and
\* periods, in their order, without its trailing spaces; it holds no other
\* character, and sanitizing it again gives it back.
C18_SanitizedLabel ==
    LET e == eng[CLI]
    IN \A k \in 1..Len(e.out) :
          "downloaded_pdf" \in DOMAIN e.out[k] =>
              LET label == e.out[k].judge_text
                  name == e.out[k].downloaded_pdf[3]
                  kept == SelectSeq(label, Allowed)
              IN /\ \A i \in 1..Len(name) : Allowed(name[i])
                 /\ name # <<>> => name[Len(name)] # " "
                 /\ Len(name) <= Len(kept)
                 /\ SubSeq(kept, 1, Len(name)) = name
                 /\ \A i \in (Len(name) + 1)..Len(kept) : kept[i] = " "
                 /\ safe_name(name) = name

\* C18 witness: a label that lost a character that is not allowed and, after
\* it, a space that had become the last character
C18_Witness ==
    LET e == eng[CLI]
    IN /\ Len(e.out) = 1
       /\ "downloaded_pdf" \in DOMAIN e.out[1]
       /\ LET label == e.out[1].judge_text
              name == e.out[1].downloaded_pdf[3]
          IN /\ Len(label) = 3
             /\ ~Allowed(label[3])
             /\ label[2] = " "
             /\ name = <<label[1]>>

====
